---- MODULE Spec2Model ----
(***************************************************************************)
(* DevTrack persistence layer: the Project/Task entity model               *)
(* (src/core/project.cpp), the SQLite-backed Database                      *)
(* (src/data/database.cpp) and the ProjectManager facade                   *)
(* (src/core/project_manager.cpp).                                         *)
(*                                                                         *)
(* Strings that are compared (project and task names) are sequences of     *)
(* ASCII codes, so that the engine's NOCASE collation and the C++          *)
(* operator== are different relations.  Progress values are integers.      *)
(* A time_point is a number of clock ticks.                                *)
(***************************************************************************)
EXTENDS Integers, Sequences, FiniteSets, TLC

---------------------------------------------------------------------------
(* Bounds of the model                                                     *)

MaxOps == 2
MaxTasks == 2
TicksPerSecond == 2
MaxCalls == 4
MaxObjects == 3
MaxHandles == 2

---------------------------------------------------------------------------
(* enum class ProjectStatus                                                *)

NOT_STARTED == 0
IN_PROGRESS == 1
PAUSED == 2
COMPLETED == 3
ProjectStatus == {NOT_STARTED, IN_PROGRESS, PAUSED, COMPLETED}

(* sqlite3 result codes used by the code                                   *)
SQLITE_OK == 0
SQLITE_ERROR == 1
SQLITE_IOERR == 10
SQLITE_CONSTRAINT == 19
SQLITE_DONE == 101

---------------------------------------------------------------------------
(* Input domains                                                           *)

ProjectNames == {<<97>>, <<65>>, <<98>>}
TaskNames == {<<116>>, <<117>>}
Descriptions == {"d1", "d2"}
ProgressInputs == {50, 150}
TaskInputs ==
    [name : TaskNames, description : {"td"}, status : {PAUSED},
     deadline : {3}, progress : {0, 50}]

---------------------------------------------------------------------------
(* Entity model: src/core/project.cpp                                      *)

\* the constructor leaving the status at the enumerator after NOT_STARTED
Project_started(name, description) ==
    [name |-> name, description |-> description,
     status |-> IN_PROGRESS, tasks |-> <<>>]

Project(name, description) ==
    [name |-> name, description |-> description,
     status |-> NOT_STARTED, tasks |-> <<>>]

RECURSIVE SumProgress(_)
SumProgress(tasks) ==
    IF tasks = <<>> THEN 0
    ELSE Head(tasks).progress + SumProgress(Tail(tasks))

\* the average as the fraction num/den; den > 0 wherever it is used
AvgProgress(tasks) == [num |-> SumProgress(tasks), den |-> Len(tasks)]

\* updateProjectStatus without the test of the average
updateProjectStatus_started(p) ==
    IF p.tasks = <<>> THEN [p EXCEPT !.status = NOT_STARTED]
    ELSE IF \A i \in DOMAIN p.tasks : p.tasks[i].progress >= 100
         THEN [p EXCEPT !.status = COMPLETED]
         ELSE [p EXCEPT !.status = IN_PROGRESS]

updateProjectStatus(p) ==
    IF p.tasks = <<>> THEN [p EXCEPT !.status = NOT_STARTED]
    ELSE LET avgProgress == AvgProgress(p.tasks)
             allTasksComplete ==
                 \A i \in DOMAIN p.tasks : p.tasks[i].progress >= 100
         IN  IF allTasksComplete THEN [p EXCEPT !.status = COMPLETED]
             ELSE IF avgProgress.num > 0 THEN [p EXCEPT !.status = IN_PROGRESS]
             ELSE [p EXCEPT !.status = NOT_STARTED]

\* std::find_if with operator== on the name: index of the first match, 0 if none
FindTask(tasks, name) ==
    IF \E i \in DOMAIN tasks : tasks[i].name = name
    THEN CHOOSE i \in DOMAIN tasks :
             /\ tasks[i].name = name
             /\ \A j \in 1..(i - 1) : tasks[j].name # name
    ELSE 0

\* The entity operations return [p |-> the project afterwards, err |-> the
\* message of the exception raised, <<>> when the call returns normally].
\* addTask that inserts the task at the front
Project_addTask_front(p, task) ==
    IF FindTask(p.tasks, task.name) # 0
    THEN [p |-> p, err |-> <<"Task with this name already exists">>]
    ELSE [p |-> updateProjectStatus([p EXCEPT !.tasks = <<task>> \o @]),
          err |-> <<>>]

Project_addTask(p, task) ==
    IF FindTask(p.tasks, task.name) # 0
    THEN [p |-> p, err |-> <<"Task with this name already exists">>]
    ELSE [p |-> updateProjectStatus([p EXCEPT !.tasks = Append(@, task)]),
          err |-> <<>>]

Max(a, b) == IF a >= b THEN a ELSE b
Min(a, b) == IF a <= b THEN a ELSE b

\* updateTaskProgress storing the value as given
Project_updateTaskProgress_unclamped(p, taskName, progress) ==
    LET it == FindTask(p.tasks, taskName)
    IN  IF it = 0 THEN [p |-> p, err |-> <<"Task not found">>]
        ELSE [p |-> updateProjectStatus(
                        [p EXCEPT !.tasks[it].progress = progress,
                                  !.tasks[it].status =
                                      IF progress >= 100 THEN COMPLETED
                                      ELSE IN_PROGRESS]),
              err |-> <<>>]

Project_updateTaskProgress(p, taskName, progress) ==
    LET it == FindTask(p.tasks, taskName)
        clamped == Max(0, Min(100, progress))
    IN  IF it = 0 THEN [p |-> p, err |-> <<"Task not found">>]
        ELSE [p |-> updateProjectStatus(
                        [p EXCEPT !.tasks[it].progress = clamped,
                                  !.tasks[it].status =
                                      IF clamped >= 100 THEN COMPLETED
                                      ELSE IN_PROGRESS]),
              err |-> <<>>]

\* setProjectStatus followed by the recomputation from the tasks
Project_setProjectStatus_derived(p, status) ==
    updateProjectStatus([p EXCEPT !.status = status])

Project_setProjectStatus(p, status) == [p EXCEPT !.status = status]

\* erase of the last element instead of the one found
Erase_back(seq, i) == SubSeq(seq, 1, Len(seq) - 1)

Erase(seq, i) == SubSeq(seq, 1, i - 1) \o SubSeq(seq, i + 1, Len(seq))

\* getOverallProgress without the test for an empty task list
Project_getOverallProgress_unguarded(p) == AvgProgress(p.tasks)

\* the double returned, as the fraction num/den
Project_getOverallProgress(p) ==
    IF p.tasks = <<>> THEN [num |-> 0, den |-> 1]
    ELSE AvgProgress(p.tasks)

Project_removeTask(p, taskName) ==
    LET it == FindTask(p.tasks, taskName)
    IN  IF it # 0 THEN updateProjectStatus([p EXCEPT !.tasks = Erase(@, it)])
        ELSE p

---------------------------------------------------------------------------
(* The SQLite connection behind m_db, as far as the code observes it.      *)
(* A connection d is a record:                                             *)
(*   projects, tasks : the rows of the two tables, in rowid order          *)
(*   inTxn           : a BEGIN is open on the connection                   *)
(*   snap            : the tables as they were at that BEGIN               *)
(*   errmsg          : what sqlite3_errmsg returns                         *)
(*   log             : the engine calls of the current operation, each     *)
(*                     <<call, result code>>                               *)
(* An engine call with fail = TRUE reports SQLITE_IOERR and has no effect. *)

Store(d) == [projects |-> d.projects, tasks |-> d.tasks]
EmptyStore == [projects |-> <<>>, tasks |-> <<>>]

\* COLLATE NOCASE: the 26 upper case ASCII letters fold to lower case
NoCase(s) == [i \in DOMAIN s |-> IF s[i] \in 65..90 THEN s[i] + 32 ELSE s[i]]
NoCaseEq(a, b) == NoCase(a) = NoCase(b)

Engine(d, call, rc, msg) ==
    [d EXCEPT !.log = Append(@, <<call, rc>>), !.errmsg = msg]

sqlite3_exec_BEGIN(d, fail) ==
    IF fail THEN [d |-> Engine(d, "BEGIN", SQLITE_IOERR, "engine failure"),
                  rc |-> SQLITE_IOERR]
    ELSE IF d.inTxn
    THEN [d |-> Engine(d, "BEGIN", SQLITE_ERROR,
                       "cannot start a transaction within a transaction"),
          rc |-> SQLITE_ERROR]
    ELSE [d |-> Engine([d EXCEPT !.inTxn = TRUE, !.snap = Store(d)],
                       "BEGIN", SQLITE_OK, "not an error"),
          rc |-> SQLITE_OK]

sqlite3_exec_COMMIT(d, fail) ==
    IF fail THEN [d |-> Engine(d, "COMMIT", SQLITE_IOERR, "engine failure"),
                  rc |-> SQLITE_IOERR]
    ELSE IF ~d.inTxn
    THEN [d |-> Engine(d, "COMMIT", SQLITE_ERROR,
                       "cannot commit - no transaction is active"),
          rc |-> SQLITE_ERROR]
    ELSE [d |-> Engine([d EXCEPT !.inTxn = FALSE, !.snap = EmptyStore],
                       "COMMIT", SQLITE_OK, "not an error"),
          rc |-> SQLITE_OK]

sqlite3_exec_ROLLBACK(d) ==
    IF ~d.inTxn
    THEN [d |-> Engine(d, "ROLLBACK", SQLITE_ERROR,
                       "cannot rollback - no transaction is active"),
          rc |-> SQLITE_ERROR]
    ELSE [d |-> Engine([d EXCEPT !.projects = d.snap.projects,
                                 !.tasks = d.snap.tasks,
                                 !.inTxn = FALSE, !.snap = EmptyStore],
                       "ROLLBACK", SQLITE_OK, "not an error"),
          rc |-> SQLITE_OK]

sqlite3_prepare_v2(d, sql, fail) ==
    IF fail THEN [d |-> Engine(d, sql, SQLITE_IOERR, "engine failure"),
                  rc |-> SQLITE_IOERR]
    ELSE [d |-> Engine(d, sql, SQLITE_OK, "not an error"), rc |-> SQLITE_OK]

\* step_InsertProject with the primary key compared byte by byte
step_InsertProject_binary(d, row, fail) ==
    IF fail THEN [d |-> Engine(d, "step INSERT projects", SQLITE_IOERR,
                               "engine failure"),
                  rc |-> SQLITE_IOERR]
    ELSE IF \E i \in DOMAIN d.projects : d.projects[i].name = row.name
    THEN [d |-> Engine(d, "step INSERT projects", SQLITE_CONSTRAINT,
                       "UNIQUE constraint failed: projects.name"),
          rc |-> SQLITE_CONSTRAINT]
    ELSE [d |-> Engine([d EXCEPT !.projects = Append(@, row)],
                       "step INSERT projects", SQLITE_DONE, "not an error"),
          rc |-> SQLITE_DONE]

\* INSERT INTO projects: name is the primary key, COLLATE NOCASE
step_InsertProject(d, row, fail) ==
    IF fail THEN [d |-> Engine(d, "step INSERT projects", SQLITE_IOERR,
                               "engine failure"),
                  rc |-> SQLITE_IOERR]
    ELSE IF \E i \in DOMAIN d.projects : NoCaseEq(d.projects[i].name, row.name)
    THEN [d |-> Engine(d, "step INSERT projects", SQLITE_CONSTRAINT,
                       "UNIQUE constraint failed: projects.name"),
          rc |-> SQLITE_CONSTRAINT]
    ELSE [d |-> Engine([d EXCEPT !.projects = Append(@, row)],
                       "step INSERT projects", SQLITE_DONE, "not an error"),
          rc |-> SQLITE_DONE]

\* INSERT INTO tasks: the foreign key is declared but not enforced
\* (no PRAGMA foreign_keys is ever issued)
step_InsertTask(d, row, fail) ==
    IF fail THEN [d |-> Engine(d, "step INSERT tasks", SQLITE_IOERR,
                               "engine failure"),
                  rc |-> SQLITE_IOERR]
    ELSE [d |-> Engine([d EXCEPT !.tasks = Append(@, row)],
                       "step INSERT tasks", SQLITE_DONE, "not an error"),
          rc |-> SQLITE_DONE]

\* UPDATE projects SET description = ?, status = ? WHERE name = ?
step_UpdateProject(d, description, status, name, fail) ==
    IF fail THEN [d |-> Engine(d, "step UPDATE projects", SQLITE_IOERR,
                               "engine failure"),
                  rc |-> SQLITE_IOERR]
    ELSE [d |-> Engine([d EXCEPT !.projects =
                           [i \in DOMAIN d.projects |->
                               IF NoCaseEq(d.projects[i].name, name)
                               THEN [d.projects[i] EXCEPT
                                        !.description = description,
                                        !.status = status]
                               ELSE d.projects[i]]],
                       "step UPDATE projects", SQLITE_DONE, "not an error"),
          rc |-> SQLITE_DONE]

\* step_DeleteTasks with the name compared to the task_name column
step_DeleteTasks_taskName(d, name, fail) ==
    IF fail THEN [d |-> Engine(d, "step DELETE tasks", SQLITE_IOERR,
                               "engine failure"),
                  rc |-> SQLITE_IOERR]
    ELSE LET Keep(r) == ~NoCaseEq(r.task_name, name)
         IN  [d |-> Engine([d EXCEPT !.tasks = SelectSeq(@, Keep)],
                           "step DELETE tasks", SQLITE_DONE, "not an error"),
              rc |-> SQLITE_DONE]

\* step_DeleteTasks with project_name compared byte by byte
step_DeleteTasks_binary(d, name, fail) ==
    IF fail THEN [d |-> Engine(d, "step DELETE tasks", SQLITE_IOERR,
                               "engine failure"),
                  rc |-> SQLITE_IOERR]
    ELSE LET Keep(r) == r.project_name # name
         IN  [d |-> Engine([d EXCEPT !.tasks = SelectSeq(@, Keep)],
                           "step DELETE tasks", SQLITE_DONE, "not an error"),
              rc |-> SQLITE_DONE]

\* DELETE FROM tasks WHERE project_name = ?
step_DeleteTasks(d, name, fail) ==
    IF fail THEN [d |-> Engine(d, "step DELETE tasks", SQLITE_IOERR,
                               "engine failure"),
                  rc |-> SQLITE_IOERR]
    ELSE LET Keep(r) == ~NoCaseEq(r.project_name, name)
         IN  [d |-> Engine([d EXCEPT !.tasks = SelectSeq(@, Keep)],
                           "step DELETE tasks", SQLITE_DONE, "not an error"),
              rc |-> SQLITE_DONE]

\* DELETE FROM projects WHERE name = ?
step_DeleteProject(d, name, fail) ==
    IF fail THEN [d |-> Engine(d, "step DELETE projects", SQLITE_IOERR,
                               "engine failure"),
                  rc |-> SQLITE_IOERR]
    ELSE LET Keep(r) == ~NoCaseEq(r.name, name)
         IN  [d |-> Engine([d EXCEPT !.projects = SelectSeq(@, Keep)],
                           "step DELETE projects", SQLITE_DONE, "not an error"),
              rc |-> SQLITE_DONE]

---------------------------------------------------------------------------
(* Database: src/data/database.cpp.  An operation returns                  *)
(* [d |-> the connection afterwards, err |-> the exception's message parts *)
(* (<<>> when it returns normally)].                                       *)

Return(d) == [d |-> d, err |-> <<>>]
Throw(d, what) == [d |-> d, err |-> what]
Raised(r) == r.err # <<>>

\* the point of an operation at which the engine is made to fail
NoFault == [at |-> "none", idx |-> 0]
At(f, point) == f.at = point
AtTask(f, point, i) == f.at = point /\ f.idx = i

beginTransaction(d, fail) ==
    LET r == sqlite3_exec_BEGIN(d, fail)
    IN  IF r.rc # SQLITE_OK
        THEN Throw(r.d, <<"Failed to begin transaction", r.d.errmsg>>)
        ELSE Return(r.d)

commitTransaction(d, fail) ==
    LET r == sqlite3_exec_COMMIT(d, fail)
    IN  IF r.rc # SQLITE_OK
        THEN Throw(r.d, <<"Failed to commit transaction", r.d.errmsg>>)
        ELSE Return(r.d)

\* rollbackTransaction that issues no ROLLBACK
rollbackTransaction_skipped(d) == Return(d)

rollbackTransaction(d) ==
    LET r == sqlite3_exec_ROLLBACK(d)
    IN  IF r.rc # SQLITE_OK
        THEN Throw(r.d, <<"Failed to rollback transaction", r.d.errmsg>>)
        ELSE Return(r.d)

handleSQLiteError(d, rc, errorContext) ==
    IF rc # SQLITE_OK THEN Throw(d, <<errorContext, d.errmsg>>)
    ELSE Return(d)

\* std::chrono::system_clock::to_time_t / from_time_t: whole seconds
to_time_t(deadline) == deadline \div TicksPerSecond
from_time_t(seconds) == seconds * TicksPerSecond

ProjectRow(p) ==
    [name |-> p.name, description |-> p.description, status |-> p.status]

TaskRow(p, task) ==
    [project_name |-> p.name, task_name |-> task.name,
     description |-> task.description, status |-> task.status,
     deadline |-> to_time_t(task.deadline), progress |-> task.progress]

\* Database::insertProject, lines 145-166: the task rows from the i-th on,
\* then the commit
RECURSIVE insertProject_tasks(_, _, _, _)
insertProject_tasks(d, project, i, f) ==
    IF i > Len(project.tasks) THEN commitTransaction(d, At(f, "commit"))
    ELSE
    LET pr == sqlite3_prepare_v2(d, "prepare INSERT tasks",
                                 AtTask(f, "prepare_task", i))
        h  == handleSQLiteError(pr.d, pr.rc,
                                "Failed to prepare task insert statement")
    IN  IF Raised(h) THEN h
        ELSE
        LET st == step_InsertTask(h.d, TaskRow(project, project.tasks[i]),
                                  AtTask(f, "step_task", i))
        IN  IF st.rc # SQLITE_DONE
            THEN LET rb == rollbackTransaction(st.d)
                 IN  IF Raised(rb) THEN rb
                     ELSE handleSQLiteError(rb.d, st.rc, "Failed to insert task")
            ELSE insertProject_tasks(st.d, project, i + 1, f)

Database_insertProject(d0, project, f) ==
    LET d == [d0 EXCEPT !.log = <<>>]
        b == beginTransaction(d, At(f, "begin"))
    IN  IF Raised(b) THEN b
        ELSE
        LET pr == sqlite3_prepare_v2(b.d, "prepare INSERT projects",
                                     At(f, "prepare_project"))
            h  == handleSQLiteError(pr.d, pr.rc,
                                    "Failed to prepare project insert statement")
        IN  IF Raised(h) THEN h
            ELSE
            LET st == step_InsertProject(h.d, ProjectRow(project),
                                         At(f, "step_project"))
            IN  IF st.rc # SQLITE_DONE
                THEN LET rb == rollbackTransaction(st.d)
                     IN  IF Raised(rb) THEN rb
                         ELSE handleSQLiteError(rb.d, st.rc,
                                                "Failed to insert project")
                ELSE insertProject_tasks(st.d, project, 1, f)

\* Database::updateProject, lines 197-214: the task rows from the i-th on
RECURSIVE updateProject_tasks(_, _, _, _)
updateProject_tasks(d, project, i, f) ==
    IF i > Len(project.tasks) THEN Return(d)
    ELSE
    LET pr == sqlite3_prepare_v2(d, "prepare INSERT tasks",
                                 AtTask(f, "prepare_task", i))
        h  == handleSQLiteError(pr.d, pr.rc,
                                "Failed to prepare task insert statement")
    IN  IF Raised(h) THEN h
        ELSE
        LET st == step_InsertTask(h.d, TaskRow(project, project.tasks[i]),
                                  AtTask(f, "step_task", i))
            h2 == handleSQLiteError(st.d, st.rc, "Failed to insert task")
        IN  IF Raised(h2) THEN h2
            ELSE updateProject_tasks(h2.d, project, i + 1, f)

Database_updateProject(d0, project, f) ==
    LET d  == [d0 EXCEPT !.log = <<>>]
        pr == sqlite3_prepare_v2(d, "prepare UPDATE projects",
                                 At(f, "prepare_update"))
        h  == handleSQLiteError(pr.d, pr.rc,
                                "Failed to prepare project update statement")
    IN  IF Raised(h) THEN h
        ELSE
        LET st == step_UpdateProject(h.d, project.description, project.status,
                                     project.name, At(f, "step_update"))
            h2 == handleSQLiteError(st.d, st.rc, "Failed to update project")
        IN  IF Raised(h2) THEN h2
            ELSE
            LET pr2 == sqlite3_prepare_v2(h2.d, "prepare DELETE tasks",
                                          At(f, "prepare_delete_tasks"))
                h3  == handleSQLiteError(pr2.d, pr2.rc,
                                         "Failed to prepare delete tasks statement")
            IN  IF Raised(h3) THEN h3
                ELSE
                LET st2 == step_DeleteTasks(h3.d, project.name,
                                            At(f, "step_delete_tasks"))
                    h4  == handleSQLiteError(st2.d, st2.rc,
                                             "Failed to delete existing tasks")
                IN  IF Raised(h4) THEN h4
                    ELSE updateProject_tasks(h4.d, project, 1, f)

\* projectExists that accepts a count of 0
Database_projectExists_anyCount(d, projectName) ==
    LET Match(r) == NoCaseEq(r.name, projectName)
        count == Len(SelectSeq(d.projects, Match))
    IN  count >= 0

\* SELECT COUNT(*) FROM projects WHERE name = ?
Database_projectExists(d, projectName) ==
    LET Match(r) == NoCaseEq(r.name, projectName)
        count == Len(SelectSeq(d.projects, Match))
    IN  count > 0

\* Database::deleteProject, lines 228-267: the body of the try block
deleteProject_try(d, projectName, f) ==
    LET pr == sqlite3_prepare_v2(d, "prepare DELETE projects",
                                 At(f, "prepare_delete_project"))
        h  == handleSQLiteError(pr.d, pr.rc,
                                "Failed to prepare delete project statement")
    IN  IF Raised(h) THEN h
        ELSE
        LET st == step_DeleteProject(h.d, projectName,
                                     At(f, "step_delete_project"))
        IN  IF st.rc # SQLITE_DONE
            THEN Throw(st.d, <<"Failed to delete project from database">>)
            ELSE
            LET pr2 == sqlite3_prepare_v2(st.d, "prepare DELETE tasks",
                                          At(f, "prepare_delete_tasks"))
                h2  == handleSQLiteError(pr2.d, pr2.rc,
                                         "Failed to prepare delete tasks statement")
            IN  IF Raised(h2) THEN h2
                ELSE
                LET st2 == step_DeleteTasks(h2.d, projectName,
                                            At(f, "step_delete_tasks"))
                IN  IF st2.rc # SQLITE_DONE
                    THEN Throw(st2.d,
                               <<"Failed to delete project tasks from database">>)
                    ELSE commitTransaction(st2.d, At(f, "commit"))

Database_deleteProject(d0, projectName, f) ==
    LET d == [d0 EXCEPT !.log = <<>>]
    IN  IF ~Database_projectExists(d, projectName)
        THEN Throw(d, <<"Project does not exist">>)
        ELSE
        LET b == beginTransaction(d, At(f, "begin"))
        IN  IF Raised(b) THEN b
            ELSE
            LET t == deleteProject_try(b.d, projectName, f)
            IN  IF Raised(t)
                THEN LET rb == rollbackTransaction(t.d)
                     IN  IF Raised(rb) THEN rb
                         ELSE Throw(rb.d, <<"Failed to delete project">> \o t.err)
                ELSE t

\* Database::loadAllProjects, lines 329-338: the task rows of one project,
\* each through Project::addTask
TaskOfRow(r) ==
    [name |-> r.task_name, description |-> r.description, status |-> r.status,
     deadline |-> from_time_t(r.deadline), progress |-> r.progress]

RECURSIVE loadAllProjects_tasks(_, _)
loadAllProjects_tasks(project, rows) ==
    IF rows = <<>> THEN [p |-> project, err |-> <<>>]
    ELSE LET a == Project_addTask(project, TaskOfRow(Head(rows)))
         IN  IF a.err # <<>> THEN a
             ELSE loadAllProjects_tasks(a.p, Tail(rows))

\* one row of "SELECT name, description, status FROM projects"
loadAllProjects_row(d, row) ==
    LET project == Project_setProjectStatus(Project(row.name, row.description),
                                            row.status)
        Match(r) == NoCaseEq(r.project_name, row.name)
    IN  loadAllProjects_tasks(project, SelectSeq(d.tasks, Match))

\* [val |-> the projects, err |-> the exception raised, <<>> if none]
RECURSIVE loadAllProjects_from(_, _)
loadAllProjects_from(d, i) ==
    IF i > Len(d.projects) THEN [val |-> <<>>, err |-> <<>>]
    ELSE LET one == loadAllProjects_row(d, d.projects[i])
         IN  IF one.err # <<>> THEN [val |-> <<>>, err |-> one.err]
             ELSE LET rest == loadAllProjects_from(d, i + 1)
                  IN  IF rest.err # <<>> THEN rest
                      ELSE [val |-> <<one.p>> \o rest.val, err |-> <<>>]

Database_loadAllProjects(d) == loadAllProjects_from(d, 1)

---------------------------------------------------------------------------
(* ProjectManager: src/core/project_manager.cpp.  An operation returns     *)
(* [d, err, ret, dberr]: ret is the value returned ("true", "false",       *)
(* "void"), dberr what the Database operation it called raised.            *)

ProjectManager_createProject(d0, name, description, f) ==
    LET r == Database_insertProject(d0, Project(name, description), f)
    IN  [d |-> r.d, err |-> <<>>, ret |-> IF Raised(r) THEN "false" ELSE "true",
         dberr |-> r.err]

ProjectManager_deleteProject(d0, name, f) ==
    LET r == Database_deleteProject(d0, name, f)
    IN  [d |-> r.d, err |-> <<>>, ret |-> IF Raised(r) THEN "false" ELSE "true",
         dberr |-> r.err]

ProjectManager_updateProject(d0, project, f) ==
    LET r == Database_updateProject(d0, project, f)
    IN  [d |-> r.d, err |-> r.err, ret |-> "void", dberr |-> r.err]

ProjectManager_getAllProjects(d) == Database_loadAllProjects(d)

\* [p |-> the project found, err |-> the exception raised, <<>> if none]
ProjectManager_getProjectByName(d, name) ==
    LET projects == Database_loadAllProjects(d)
    IN  IF projects.err # <<>>
        THEN [p |-> Project(<<>>, ""), err |-> projects.err]
        ELSE LET it == IF \E i \in DOMAIN projects.val :
                              projects.val[i].name = name
                       THEN CHOOSE i \in DOMAIN projects.val :
                                /\ projects.val[i].name = name
                                /\ \A j \in 1..(i - 1) :
                                       projects.val[j].name # name
                       ELSE 0
             IN  IF it = 0
                 THEN [p |-> Project(<<>>, ""), err |-> <<"Project not found">>]
                 ELSE [p |-> projects.val[it], err |-> <<>>]

\* addTaskToProject that persists the loaded project before adding the task
ProjectManager_addTaskToProject_early(d0, projectName, task, f) ==
    LET d == [d0 EXCEPT !.log = <<>>]
        g == ProjectManager_getProjectByName(d, projectName)
    IN  IF g.err # <<>>
        THEN [d |-> d, err |-> g.err, ret |-> "void", dberr |-> <<>>]
        ELSE LET r == Database_updateProject(d, g.p, f)
                 a == Project_addTask(g.p, task)
             IN  IF a.err # <<>>
                 THEN [d |-> r.d, err |-> a.err, ret |-> "void", dberr |-> <<>>]
                 ELSE [d |-> r.d, err |-> r.err, ret |-> "void", dberr |-> r.err]

ProjectManager_addTaskToProject(d0, projectName, task, f) ==
    LET d == [d0 EXCEPT !.log = <<>>]
        g == ProjectManager_getProjectByName(d, projectName)
    IN  IF g.err # <<>>
        THEN [d |-> d, err |-> g.err, ret |-> "void", dberr |-> <<>>]
        ELSE LET a == Project_addTask(g.p, task)
             IN  IF a.err # <<>>
                 THEN [d |-> d, err |-> a.err, ret |-> "void", dberr |-> <<>>]
                 ELSE LET r == Database_updateProject(d, a.p, f)
                      IN  [d |-> r.d, err |-> r.err, ret |-> "void",
                           dberr |-> r.err]

ProjectManager_updateTaskProgress(d0, projectName, taskName, progress, f) ==
    LET d == [d0 EXCEPT !.log = <<>>]
        g == ProjectManager_getProjectByName(d, projectName)
    IN  IF g.err # <<>>
        THEN [d |-> d, err |-> g.err, ret |-> "void", dberr |-> <<>>]
        ELSE LET u == Project_updateTaskProgress(g.p, taskName, progress)
             IN  IF u.err # <<>>
                 THEN [d |-> d, err |-> u.err, ret |-> "void", dberr |-> <<>>]
                 ELSE LET r == Database_updateProject(d, u.p, f)
                      IN  [d |-> r.d, err |-> r.err, ret |-> "void",
                           dberr |-> r.err]

---------------------------------------------------------------------------
(* Lifetime of Database objects: src/data/database.cpp, lines 8-54.        *)
(* A lifetime state L is a record:                                         *)
(*   objects : for each Database object, whether it is alive and the       *)
(*             value of its member m_db (nullptr or a handle)              *)
(*   handles : for each handle of the engine, "unused", "open" or          *)
(*             "closed", and the number of sqlite3_close calls on it       *)

nullptr == 0
Objects == 1..MaxObjects
Handles == 1..MaxHandles

NoDatabase ==
    [objects |-> [o \in Objects |-> [alive |-> FALSE, m_db |-> nullptr]],
     handles |-> [h \in Handles |-> [state |-> "unused", closes |-> 0]]]

sqlite3_close(L, h) ==
    [L EXCEPT !.handles[h].state = "closed", !.handles[h].closes = @ + 1]

\* Database::closeDatabase: if (m_db) { sqlite3_close(m_db); m_db = nullptr; }
closeDatabase(L, o) ==
    IF L.objects[o].m_db # nullptr
    THEN [sqlite3_close(L, L.objects[o].m_db) EXCEPT !.objects[o].m_db = nullptr]
    ELSE L

\* The points at which the constructor can fail, and whether a failed
\* sqlite3_open still handed out a handle.
CtorFaults ==
    [at : {"none", "encoding", "schema"}, handle : {TRUE}]
    \cup [at : {"open"}, handle : BOOLEAN]

\* Database::Database(dbPath) for object o with h the next handle of the
\* engine: [L, err].  When openDatabase or createTables throws, the object
\* never comes to life and its destructor does not run.
Database_Database(L, o, h, f) ==
    LET opened == IF f.handle THEN [L EXCEPT !.handles[h].state = "open"] ELSE L
    IN  IF f.at = "open"
        THEN [L |-> opened, err |-> <<"Cannot open database">>]
        ELSE IF f.at = "encoding"
        THEN [L |-> opened, err |-> <<"Failed to set UTF-8 encoding">>]
        ELSE IF f.at = "schema"
        THEN [L |-> opened, err |-> <<"SQL error">>]
        ELSE [L |-> [opened EXCEPT !.objects[o] = [alive |-> TRUE, m_db |-> h]],
              err |-> <<>>]

\* Database::~Database
Database_dtor(L, o) ==
    [closeDatabase(L, o) EXCEPT !.objects[o].alive = FALSE]

\* the move constructor that leaves other.m_db as it was
Database_move_copying(L, o, other) ==
    [L EXCEPT !.objects[o] = [alive |-> TRUE, m_db |-> L.objects[other].m_db]]

\* Database::Database(Database&& other)
Database_move(L, o, other) ==
    [L EXCEPT !.objects[o] = [alive |-> TRUE, m_db |-> L.objects[other].m_db],
              !.objects[other].m_db = nullptr]

\* Database::operator=(Database&& other)
Database_moveAssign(L, o, other) ==
    IF o # other
    THEN LET closed == closeDatabase(L, o)
         IN  [closed EXCEPT !.objects[o].m_db = closed.objects[other].m_db,
                            !.objects[other].m_db = nullptr]
    ELSE L

\* one Database, constructed without failure
OneDatabase == Database_Database(NoDatabase, 1, 1, [at |-> "none", handle |-> TRUE]).L

---------------------------------------------------------------------------
(* The state machine: one caller, one Database, one ProjectManager.        *)
(*   m_db    : the connection of the Database                              *)
(*   project : a Project object the caller holds in memory                 *)
(*   call    : the last operation called and its arguments                 *)
(*   pre     : m_db as it was when that operation was called               *)
(*   out     : what the operation returned (ret) or raised (err), and what *)
(*             the Database operation inside it raised (dberr)             *)
(*   ops     : the number of operations called so far                      *)

VARIABLES m_db, project, call, pre, out, ops, objects, handles

vars == <<m_db, project, call, pre, out, ops, objects, handles>>

NoTask ==
    [name |-> <<>>, description |-> "", status |-> NOT_STARTED,
     deadline |-> 0, progress |-> 0]

Call(op, name, proj, task, taskName, progress, f) ==
    [op |-> op, name |-> name, project |-> proj, task |-> task,
     taskName |-> taskName, progress |-> progress, fault |-> f]

\* the points at which the engine can be made to fail, per operation
InsertFaults(p) ==
    {NoFault}
    \cup [at : {"begin", "prepare_project", "step_project", "commit"}, idx : {0}]
    \cup [at : {"prepare_task", "step_task"}, idx : 1..Len(p.tasks)]

UpdateFaults(p) ==
    {NoFault}
    \cup [at : {"prepare_update", "step_update", "prepare_delete_tasks",
                "step_delete_tasks"}, idx : {0}]
    \cup [at : {"prepare_task", "step_task"}, idx : 1..Len(p.tasks)]

DeleteFaults ==
    {NoFault}
    \cup [at : {"begin", "prepare_delete_project", "step_delete_project",
                "prepare_delete_tasks", "step_delete_tasks", "commit"},
          idx : {0}]

\* the engine failed where it was made to: the operation got that far
Injected(d) == \E i \in DOMAIN d.log : d.log[i][2] = SQLITE_IOERR
Reaches(f, r) == f = NoFault \/ Injected(r.d)

\* the project addTaskToProject writes back: the one loaded, with the task
Written(p, t) == [p EXCEPT !.tasks = Append(@, t)]

\* Database("devtrack.db") on a file that does not exist yet
Fresh ==
    [projects |-> <<>>, tasks |-> <<>>, inTxn |-> FALSE,
     snap |-> EmptyStore, errmsg |-> "not an error", log |-> <<>>]

\* Projects the caller has built before the first step
SeedTask(name, progress) ==
    [name |-> name, description |-> "td", status |-> PAUSED,
     deadline |-> 3, progress |-> progress]

SeedProjects ==
    LET a0 == Project(<<97>>, "d1")
        a1 == Project_addTask(a0, SeedTask(<<116>>, 50)).p
        b1 == Project_addTask(Project(<<98>>, "d1"), SeedTask(<<116>>, 50)).p
        b2 == Project_addTask(b1, SeedTask(<<117>>, 0)).p
    IN  {a0, a1, b2}

\* The file may exist from an earlier run (CREATE TABLE IF NOT EXISTS): it
\* then holds what insertProject wrote.
SeedStores ==
    {Fresh} \cup
    {[Database_insertProject(Fresh, p, NoFault).d EXCEPT !.log = <<>>] :
        p \in {q \in SeedProjects : Len(q.tasks) = 1}}

Init ==
    /\ m_db \in SeedStores
    /\ project \in SeedProjects
    /\ call = Call("Database", <<>>, project, NoTask, <<>>, 0, NoFault)
    /\ pre = m_db
    /\ out = [ret |-> "void", err |-> <<>>, dberr |-> <<>>]
    /\ ops = 0
    /\ objects = OneDatabase.objects
    /\ handles = OneDatabase.handles

\* a call that touches only the caller's Project
EntityStep(c, p, err) ==
    /\ ops' = ops + 1
    /\ call' = c
    /\ pre' = m_db
    /\ project' = p
    /\ out' = [ret |-> "void", err |-> err, dberr |-> <<>>]
    /\ UNCHANGED <<m_db, objects, handles>>

\* a call on the Database or the ProjectManager
StoreStep(c, r) ==
    /\ ops' = ops + 1
    /\ Reaches(c.fault, r)
    /\ call' = c
    /\ pre' = m_db
    /\ m_db' = r.d
    /\ out' = [ret |-> r.ret, err |-> r.err, dberr |-> r.dberr]
    /\ UNCHANGED <<project, objects, handles>>

Direct(r) == [d |-> r.d, err |-> r.err, ret |-> "void", dberr |-> r.err]

Construct ==
    /\ ops < MaxOps
    /\ \E n \in ProjectNames, de \in Descriptions :
           EntityStep(Call("Project", n, project, NoTask, <<>>, 0, NoFault),
                      Project(n, de), <<>>)

AddTask ==
    /\ ops < MaxOps
    /\ \E t \in TaskInputs :
           /\ Len(project.tasks) < MaxTasks
           /\ LET r == Project_addTask(project, t)
              IN  EntityStep(Call("addTask", <<>>, project, t, t.name, 0, NoFault),
                             r.p, r.err)

UpdateTaskProgress ==
    /\ ops < MaxOps
    /\ \E tn \in TaskNames, v \in ProgressInputs :
           LET r == Project_updateTaskProgress(project, tn, v)
           IN  EntityStep(Call("updateTaskProgress", <<>>, project, NoTask, tn, v,
                               NoFault),
                          r.p, r.err)

RemoveTask ==
    /\ ops < MaxOps
    /\ \E tn \in TaskNames :
           EntityStep(Call("removeTask", <<>>, project, NoTask, tn, 0, NoFault),
                      Project_removeTask(project, tn), <<>>)

SetProjectStatus ==
    /\ ops < MaxOps
    /\ \E st \in ProjectStatus :
           EntityStep(Call("setProjectStatus", <<>>, project, NoTask, <<>>, st,
                           NoFault),
                      Project_setProjectStatus(project, st), <<>>)

InsertProject ==
    /\ ops < MaxOps
    /\ \E f \in InsertFaults(project) :
           StoreStep(Call("insertProject", project.name, project, NoTask, <<>>, 0, f),
                     Direct(Database_insertProject(m_db, project, f)))

UpdateProject ==
    /\ ops < MaxOps
    /\ \E f \in UpdateFaults(project) :
           StoreStep(Call("updateProject", project.name, project, NoTask, <<>>, 0, f),
                     ProjectManager_updateProject(m_db, project, f))

CreateProject ==
    /\ ops < MaxOps
    /\ \E n \in ProjectNames, de \in Descriptions :
         \E f \in InsertFaults(Project(n, de)) :
           StoreStep(Call("createProject", n, Project(n, de), NoTask, <<>>, 0, f),
                     ProjectManager_createProject(m_db, n, de, f))

DeleteProject ==
    /\ ops < MaxOps
    /\ \E n \in ProjectNames, f \in DeleteFaults :
           StoreStep(Call("deleteProject", n, project, NoTask, <<>>, 0, f),
                     ProjectManager_deleteProject(m_db, n, f))

AddTaskToProject ==
    /\ ops < MaxOps
    /\ \E n \in ProjectNames, t \in TaskInputs :
         \E f \in UpdateFaults(Written(ProjectManager_getProjectByName(m_db, n).p, t)) :
           StoreStep(Call("addTaskToProject", n, project, t, t.name, 0, f),
                     ProjectManager_addTaskToProject(m_db, n, t, f))

MgrUpdateTaskProgress ==
    /\ ops < MaxOps
    /\ \E n \in ProjectNames, tn \in TaskNames, v \in ProgressInputs :
         \E f \in UpdateFaults(ProjectManager_getProjectByName(m_db, n).p) :
           StoreStep(Call("ProjectManager::updateTaskProgress", n, project, NoTask,
                          tn, v, f),
                     ProjectManager_updateTaskProgress(m_db, n, tn, v, f))

Next ==
    \/ Construct
    \/ AddTask
    \/ UpdateTaskProgress
    \/ RemoveTask
    \/ SetProjectStatus
    \/ InsertProject
    \/ UpdateProject
    \/ CreateProject
    \/ DeleteProject
    \/ AddTaskToProject
    \/ MgrUpdateTaskProgress

Spec == Init /\ [][Next]_vars

---------------------------------------------------------------------------
(* The ProjectManager on its own: a new database file, written only        *)
(* through createProject, deleteProject, addTaskToProject and              *)
(* updateTaskProgress.                                                     *)
ManagerInit ==
    /\ m_db = Fresh
    /\ project = Project(<<97>>, "d1")
    /\ call = Call("Database", <<>>, project, NoTask, <<>>, 0, NoFault)
    /\ pre = m_db
    /\ out = [ret |-> "void", err |-> <<>>, dberr |-> <<>>]
    /\ ops = 0
    /\ objects = OneDatabase.objects
    /\ handles = OneDatabase.handles

ManagerNext ==
    \/ CreateProject
    \/ DeleteProject
    \/ AddTaskToProject
    \/ MgrUpdateTaskProgress

ManagerSpec == ManagerInit /\ [][ManagerNext]_vars

---------------------------------------------------------------------------
(* Construction, moves and destruction of Database objects.  call.name is  *)
(* <<the object, the object moved from>>, pre the lifetime state before    *)
(* the step.                                                               *)
Lifetime == [objects |-> objects, handles |-> handles]

LifetimeInit ==
    /\ m_db = Fresh
    /\ project = Project(<<97>>, "d1")
    /\ call = Call("none", <<0, 0>>, project, NoTask, <<>>, 0, NoFault)
    /\ pre = NoDatabase
    /\ out = [ret |-> "void", err |-> <<>>, dberr |-> <<>>]
    /\ ops = 0
    /\ objects = NoDatabase.objects
    /\ handles = NoDatabase.handles

LifetimeStep(op, o, other, f, L, err) ==
    /\ call' = Call(op, <<o, other>>, project, NoTask, <<>>, 0, f)
    /\ pre' = Lifetime
    /\ objects' = L.objects
    /\ handles' = L.handles
    /\ out' = [ret |-> "void", err |-> err, dberr |-> <<>>]
    /\ UNCHANGED <<m_db, project, ops>>

NewDatabase ==
    \E o \in Objects, h \in Handles, f \in CtorFaults :
        /\ ~objects[o].alive
        /\ handles[h].state = "unused"
        /\ \A g \in 1..(h - 1) : handles[g].state # "unused"
        /\ LET r == Database_Database(Lifetime, o, h, f)
           IN  LifetimeStep("Database", o, 0, f, r.L, r.err)

MoveConstruct ==
    \E o \in Objects, other \in Objects :
        /\ ~objects[o].alive
        /\ objects[other].alive
        /\ LifetimeStep("Database(Database&&)", o, other, NoFault,
                        Database_move(Lifetime, o, other), <<>>)

MoveAssign ==
    \E o \in Objects, other \in Objects :
        /\ objects[o].alive
        /\ objects[other].alive
        /\ LifetimeStep("operator=", o, other, NoFault,
                        Database_moveAssign(Lifetime, o, other), <<>>)

Destroy ==
    \E o \in Objects :
        /\ objects[o].alive
        /\ LifetimeStep("~Database", o, 0, NoFault,
                        Database_dtor(Lifetime, o), <<>>)

LifetimeNext ==
    \/ NewDatabase
    \/ MoveConstruct
    \/ MoveAssign
    \/ Destroy

LifetimeSpec == LifetimeInit /\ [][LifetimeNext]_vars

---------------------------------------------------------------------------
(* The Project entity on its own, driven with the full range of caller     *)
(* inputs: names that differ only in letter case, progress values below 0, *)
(* inside and above [0, 100].  insertProject writes the entity's rows.     *)

\* 't' and 'T'
EntityTaskNames == {<<116>>, <<84>>}
EntityProgress == {0 - 10, 0, 50, 100, 150}

\* Task values whose status agrees with their progress when they are handed in
EntityTasks ==
    {[name |-> n, description |-> "td", status |-> c[1], deadline |-> 3,
      progress |-> c[2]] :
        n \in EntityTaskNames,
        c \in {<<NOT_STARTED, 0>>, <<IN_PROGRESS, 50>>, <<COMPLETED, 150>>}}

EntityInit ==
    /\ m_db = Fresh
    /\ project = Project(<<97>>, "d1")
    /\ call = Call("Project", <<97>>, project, NoTask, <<>>, 0, NoFault)
    /\ pre = m_db
    /\ out = [ret |-> "void", err |-> <<>>, dberr |-> <<>>]
    /\ ops = 0
    /\ objects = OneDatabase.objects
    /\ handles = OneDatabase.handles

Entity_addTask ==
    /\ ops < MaxCalls
    /\ Len(project.tasks) < MaxTasks
    /\ \E t \in EntityTasks :
           LET r == Project_addTask(project, t)
           IN  EntityStep(Call("addTask", <<>>, project, t, t.name, 0, NoFault),
                          r.p, r.err)

Entity_updateTaskProgress ==
    /\ ops < MaxCalls
    /\ \E tn \in EntityTaskNames, v \in EntityProgress :
           LET r == Project_updateTaskProgress(project, tn, v)
           IN  EntityStep(Call("updateTaskProgress", <<>>, project, NoTask, tn, v,
                               NoFault),
                          r.p, r.err)

Entity_removeTask ==
    /\ ops < MaxCalls
    /\ \E tn \in EntityTaskNames :
           EntityStep(Call("removeTask", <<>>, project, NoTask, tn, 0, NoFault),
                      Project_removeTask(project, tn), <<>>)

Entity_setProjectStatus ==
    /\ ops < MaxCalls
    /\ \E st \in ProjectStatus :
           EntityStep(Call("setProjectStatus", <<>>, project, NoTask, <<>>, st,
                           NoFault),
                      Project_setProjectStatus(project, st), <<>>)

Entity_insertProject ==
    /\ ops < MaxCalls
    /\ StoreStep(Call("insertProject", project.name, project, NoTask, <<>>, 0,
                      NoFault),
                 Direct(Database_insertProject(m_db, project, NoFault)))

Entity_getOverallProgress ==
    /\ ops < MaxCalls
    /\ ops' = ops + 1
    /\ call' = Call("getOverallProgress", <<>>, project, NoTask, <<>>, 0, NoFault)
    /\ pre' = m_db
    /\ out' = [ret |-> Project_getOverallProgress(project), err |-> <<>>,
               dberr |-> <<>>]
    /\ UNCHANGED <<m_db, project, objects, handles>>

EntityNext ==
    \/ Entity_addTask
    \/ Entity_updateTaskProgress
    \/ Entity_removeTask
    \/ Entity_setProjectStatus
    \/ Entity_insertProject
    \/ Entity_getOverallProgress

EntitySpec == EntityInit /\ [][EntityNext]_vars

---------------------------------------------------------------------------
(* Vocabulary of the properties                                            *)

LoadAll(d) == Database_loadAllProjects(d).val

\* during the last operation the engine reported no failure at all
EngineClean(d) ==
    \A i \in DOMAIN d.log : d.log[i][2] \in {SQLITE_OK, SQLITE_DONE}

\* store s with the row of project p and one row for each of its tasks
WithProject(s, p) ==
    [projects |-> Append(s.projects, ProjectRow(p)),
     tasks |-> s.tasks \o [i \in 1..Len(p.tasks) |-> TaskRow(p, p.tasks[i])]]

\* a task without its deadline
Essential(t) ==
    [name |-> t.name, description |-> t.description, status |-> t.status,
     progress |-> t.progress]

SameTasks(ts, us) ==
    /\ Len(ts) = Len(us)
    /\ \A i \in DOMAIN ts : Essential(ts[i]) = Essential(us[i])

SameProject(q, p) ==
    /\ q.name = p.name
    /\ q.description = p.description
    /\ q.status = p.status
    /\ SameTasks(q.tasks, p.tasks)

InsertOps == {"insertProject", "createProject"}
TaskOps == {"addTaskToProject", "ProjectManager::updateTaskProgress"}

---------------------------------------------------------------------------
(* C1. Database::insertProject is all-or-nothing wherever the engine       *)
(* fails: after the call the rows visible on the connection are the rows   *)
(* from before the call, or those rows plus the project row and every one  *)
(* of its task rows.                                                       *)
C1_InsertAllOrNothing ==
    LET all == WithProject(Store(pre), call.project)
        inserted == [pre EXCEPT !.projects = all.projects, !.tasks = all.tasks]
    IN  call.op \in InsertOps =>
            \/ LoadAll(m_db) = LoadAll(pre)
            \/ LoadAll(m_db) = LoadAll(inserted)

(* C2. When projectName is stored, holds no task named task.name and the   *)
(* engine reports no failure, addTaskToProject returns without raising and *)
(* getProjectByName then shows the stored tasks followed by the new task.  *)
C2_AddTaskToProjectAppends ==
    LET g == ProjectManager_getProjectByName(pre, call.name)
        after == ProjectManager_getProjectByName(m_db, call.name)
    IN  ( /\ call.op = "addTaskToProject"
          /\ g.err = <<>>
          /\ FindTask(g.p.tasks, call.task.name) = 0
          /\ EngineClean(m_db) )
        => /\ out.err = <<>>
           /\ after.err = <<>>
           /\ SameTasks(after.p.tasks, g.p.tasks \o <<call.task>>)

(* C3. For a project whose name is stored and with no engine failure,      *)
(* updateProject completes without raising, and loadAllProjects then       *)
(* returns the project with the given description and exactly the given    *)
(* tasks in the given order.                                               *)
C3_UpdateProjectReplaces ==
    LET after == ProjectManager_getProjectByName(m_db, call.name)
    IN  ( /\ call.op = "updateProject"
          /\ ProjectManager_getProjectByName(pre, call.name).err = <<>>
          /\ EngineClean(m_db) )
        => /\ out.err = <<>>
           /\ after.err = <<>>
           /\ after.p.description = call.project.description
           /\ SameTasks(after.p.tasks, call.project.tasks)

(* C4. Database::updateProject is all-or-nothing: when it raises, the      *)
(* store is as it was before the call.                                     *)
C4_UpdateAllOrNothing ==
    (call.op = "updateProject" /\ out.err # <<>>) => Store(m_db) = Store(pre)

(* C5. Round trip: insertProject of a reachable Project whose name is not  *)
(* stored, followed by loadAllProjects, returns a project equal to it in   *)
(* name, description, status and tasks (name, description, status and      *)
(* progress of each, in order).                                            *)
C5_InsertLoadRoundTrip ==
    ( /\ call.op = "insertProject"
      /\ ~Database_projectExists(pre, call.name)
      /\ out.err = <<>> )
    => \E i \in DOMAIN LoadAll(m_db) : SameProject(LoadAll(m_db)[i], call.project)

C7_DeleteRemovesProjectAndTasks ==
    LET OtherProject(r) == ~NoCaseEq(r.name, call.name)
        OtherTask(r) == ~NoCaseEq(r.project_name, call.name)
    IN  (call.op = "deleteProject" /\ out.ret = "true")
        => /\ out.dberr = <<>>
           /\ ~Database_projectExists(m_db, call.name)
           /\ \A i \in DOMAIN LoadAll(m_db) :
                  ~NoCaseEq(LoadAll(m_db)[i].name, call.name)
           /\ \A i \in DOMAIN m_db.tasks :
                  ~NoCaseEq(m_db.tasks[i].project_name, call.name)
           /\ ProjectManager_getProjectByName(m_db, call.name).err
                  = <<"Project not found">>
           /\ m_db.projects = SelectSeq(pre.projects, OtherProject)
           /\ m_db.tasks = SelectSeq(pre.tasks, OtherTask)
           /\ LoadAll(m_db) = SelectSeq(LoadAll(pre), OtherProject)

\* a project with a task row was deleted under another spelling of its name
\* while another project with task rows is stored
C7_Witness ==
    /\ call.op = "deleteProject"
    /\ out.ret = "true"
    /\ \E i \in DOMAIN pre.projects :
           /\ NoCaseEq(pre.projects[i].name, call.name)
           /\ pre.projects[i].name # call.name
    /\ \E i \in DOMAIN pre.tasks : NoCaseEq(pre.tasks[i].project_name, call.name)
    /\ m_db.projects # <<>>
    /\ m_db.tasks # <<>>

C9_NoTransactionLeftOpen ==
    /\ (call.op \in InsertOps \cup {"updateProject", "deleteProject"}
            /\ out.dberr # <<>>)
       => ~m_db.inTxn
    /\ (call.op \in InsertOps /\ ~Database_projectExists(pre, call.name)
            /\ call.fault = NoFault)
       => out.dberr = <<>>
    /\ (call.op = "deleteProject" /\ Database_projectExists(pre, call.name)
            /\ call.fault = NoFault)
       => out.dberr = <<>>

(* C10. Whenever ProjectManager::addTaskToProject or                       *)
(* ProjectManager::updateTaskProgress raises, the content of the store is  *)
(* identical to its content before the call.                               *)
C10_TaskOpsStrongGuarantee ==
    (call.op \in TaskOps /\ out.err # <<>>) => Store(m_db) = Store(pre)

\* name is the name of a project loadAllProjects returns on connection d
Visible(d, name) == \E i \in DOMAIN LoadAll(d) : LoadAll(d)[i].name = name

(* C11. ProjectManager::createProject and ProjectManager::deleteProject    *)
(* never raise, and for every outcome of the engine: createProject returns *)
(* true exactly when the project was absent before and is visible in       *)
(* getAllProjects afterwards; deleteProject returns true exactly when the  *)
(* project was stored before and is not visible afterwards; and when       *)
(* either returns false the visible content of the store is unchanged.     *)
C11_ManagerResultMatchesStore ==
    /\ call.op = "createProject" =>
           /\ out.err = <<>>
           /\ out.ret = "true" <=>
                  (~Database_projectExists(pre, call.name) /\ Visible(m_db, call.name))
           /\ out.ret = "false" => LoadAll(m_db) = LoadAll(pre)
    /\ call.op = "deleteProject" =>
           /\ out.err = <<>>
           /\ out.ret = "true" <=>
                  (Database_projectExists(pre, call.name)
                       /\ ~Database_projectExists(m_db, call.name))
           /\ out.ret = "false" => LoadAll(m_db) = LoadAll(pre)

\* the Project the entity operation of this step was called on
Before == call.project

(* C12. Project::addTask(task) raises and leaves the task list and the     *)
(* project status unchanged whenever the project already holds a task      *)
(* whose name equals task.name ignoring letter case; so no reachable       *)
(* Project holds two tasks whose names are equal ignoring case.            *)
C12_TaskNamesUniqueNoCase ==
    /\ ( /\ call.op = "addTask"
         /\ \E i \in DOMAIN Before.tasks :
                NoCaseEq(Before.tasks[i].name, call.task.name) )
       => /\ out.err # <<>>
          /\ project.tasks = Before.tasks
          /\ project.status = Before.status
    /\ \A i, j \in DOMAIN project.tasks :
           NoCaseEq(project.tasks[i].name, project.tasks[j].name) => i = j

(* C13. In every reachable Project state, and in every task row that       *)
(* insertProject or updateProject has written, each task's progress p      *)
(* satisfies 0 <= p <= 100, whatever progress the caller supplied.         *)
C13_ProgressWithinRange ==
    /\ \A i \in DOMAIN project.tasks :
           project.tasks[i].progress >= 0 /\ project.tasks[i].progress <= 100
    /\ \A i \in DOMAIN m_db.tasks :
           m_db.tasks[i].progress >= 0 /\ m_db.tasks[i].progress <= 100

(* C14. In every reachable Project state every task's status agrees with   *)
(* its progress: Completed if and only if progress >= 100; InProgress only *)
(* if progress > 0; a task with progress 0 is NotStarted.                  *)
C14_TaskStatusMatchesProgress ==
    \A i \in DOMAIN project.tasks :
        LET t == project.tasks[i]
        IN  /\ t.status = COMPLETED <=> t.progress >= 100
            /\ t.status = IN_PROGRESS => t.progress > 0
            /\ t.progress = 0 => t.status = NOT_STARTED

\* the status the specification derives from a task list
DerivedStatus(tasks) ==
    IF tasks = <<>> THEN NOT_STARTED
    ELSE IF \A i \in DOMAIN tasks : tasks[i].progress >= 100 THEN COMPLETED
    ELSE IF SumProgress(tasks) > 0 THEN IN_PROGRESS
    ELSE NOT_STARTED

\* this step was an entity operation that changed the task list
TaskListMutated ==
    \/ call.op \in {"addTask", "updateTaskProgress"} /\ out.err = <<>>
    \/ call.op = "removeTask" /\ project.tasks # Before.tasks

(* C15. After every successful addTask, every successful                   *)
(* updateTaskProgress and every removeTask that removed a task, the        *)
(* project's status is the status derived from the resulting task list,    *)
(* whatever status (an explicit override included) was held before.        *)
C15_StatusDerivedAfterMutation ==
    TaskListMutated => project.status = DerivedStatus(project.tasks)

\* a task was added to a project explicitly set to Paused
C15_Witness ==
    /\ TaskListMutated
    /\ call.op = "addTask"
    /\ Before.status = PAUSED
    /\ project.status # PAUSED

Clamp(v) == IF v < 0 THEN 0 ELSE IF v > 100 THEN 100 ELSE v

C17_ManagerUpdateTaskProgress ==
    LET g == ProjectManager_getProjectByName(pre, call.name)
        after == ProjectManager_getProjectByName(m_db, call.name)
    IN  ( /\ call.op = "ProjectManager::updateTaskProgress"
          /\ g.err = <<>>
          /\ \E i \in DOMAIN g.p.tasks : g.p.tasks[i].name = call.taskName
          /\ EngineClean(m_db) )
        => /\ out.err = <<>>
           /\ after.err = <<>>
           /\ \E i \in DOMAIN after.p.tasks :
                  /\ after.p.tasks[i].name = call.taskName
                  /\ after.p.tasks[i].progress = Clamp(call.progress)
                  /\ after.p.tasks[i].status =
                         IF Clamp(call.progress) >= 100 THEN COMPLETED
                         ELSE IN_PROGRESS
           /\ after.p.status = DerivedStatus(after.p.tasks)

(* C18. For every name n and every reachable store, getProjectByName(n)    *)
(* returns a project exactly when projectExists(n) is true, that is when   *)
(* some stored project's name equals n ignoring letter case; otherwise it  *)
(* raises 'Project not found'.                                             *)
C18_LookupAgreesWithExists ==
    \A n \in ProjectNames :
        LET g == ProjectManager_getProjectByName(m_db, n)
        IN  IF Database_projectExists(m_db, n)
            THEN g.err = <<>> /\ NoCaseEq(g.p.name, n)
            ELSE g.err = <<"Project not found">>

\* what the caller of this step observed: the value returned and the
\* exception raised
Observed(r) == [ret |-> r.ret, err |-> r.err]

(* C19. The outcome a caller observes from creating a project whose name   *)
(* already exists differs from the outcome observed when the creation      *)
(* fails because the engine failed.                                        *)
C19_DuplicateDistinctFromFailure ==
    /\ ( /\ call.op = "createProject"
         /\ call.fault = NoFault
         /\ Database_projectExists(pre, call.name) )
       => \A n \in ProjectNames, de \in Descriptions :
            \A f \in InsertFaults(Project(n, de)) \ {NoFault} :
              LET r == ProjectManager_createProject(pre, n, de, f)
              IN  Injected(r.d) => Observed(r) # Observed(out)
    /\ ( /\ call.op = "insertProject"
         /\ call.fault = NoFault
         /\ Database_projectExists(pre, call.name) )
       => \A f \in InsertFaults(call.project) \ {NoFault} :
              LET r == Direct(Database_insertProject(pre, call.project, f))
              IN  Injected(r.d) => Observed(r) # Observed(out)

\* no stored project has this name, letter case ignored
Absent(d, name) ==
    \A i \in DOMAIN d.projects : ~NoCaseEq(d.projects[i].name, name)

Stored(d, name) ==
    LET Named(q) == q.name = name
    IN  SelectSeq(LoadAll(d), Named)

(* C21. ProjectManager::addTaskToProject raises when no project named      *)
(* projectName is stored or the stored project already holds a task named  *)
(* task.name; ProjectManager::updateTaskProgress raises when no project    *)
(* named projectName is stored or it holds no task named taskName; in all  *)
(* four cases no write is issued to the store, which is unchanged.         *)
C21_ManagerTaskOpsRejectEarly ==
    LET found == Stored(pre, call.name)
        Holds(name) ==
            \E i \in DOMAIN found[1].tasks : found[1].tasks[i].name = name
        Untouched == Store(m_db) = Store(pre) /\ m_db.log = <<>>
                         /\ m_db.inTxn = pre.inTxn
    IN  /\ (call.op \in TaskOps /\ found = <<>>)
           => out.err = <<"Project not found">> /\ Untouched
        /\ (call.op = "addTaskToProject" /\ found # <<>> /\ Holds(call.task.name))
           => out.err = <<"Task with this name already exists">> /\ Untouched
        /\ (call.op = "ProjectManager::updateTaskProgress" /\ found # <<>>
                /\ ~Holds(call.taskName))
           => out.err = <<"Task not found">> /\ Untouched

\* addTaskToProject was refused for a task name the stored project holds
C21_Witness ==
    /\ call.op = "addTaskToProject"
    /\ out.err = <<"Task with this name already exists">>
    /\ \E i \in DOMAIN pre.tasks :
           /\ pre.tasks[i].project_name = call.name
           /\ pre.tasks[i].task_name = call.task.name

(* C22. A newly constructed Project has the given name and description,    *)
(* status NotStarted and no tasks; and after createProject(name,           *)
(* description) returns true for a name that was not stored,               *)
(* getAllProjects holds exactly one more project than before: one with     *)
(* that name, that description, status NotStarted and no tasks, every      *)
(* project stored before being unchanged.                                  *)
C22_CreatedProjectIsEmpty ==
    LET Others(q) == q.name # call.name
    IN  /\ call.op = "Project" =>
               \E de \in Descriptions :
                   project = [name |-> call.name, description |-> de,
                              status |-> NOT_STARTED, tasks |-> <<>>]
        /\ (call.op = "createProject" /\ out.ret = "true" /\ Absent(pre, call.name))
           => /\ Len(LoadAll(m_db)) = Len(LoadAll(pre)) + 1
              /\ SelectSeq(LoadAll(m_db), Others) = LoadAll(pre)
              /\ Stored(m_db, call.name) =
                     << [name |-> call.name,
                         description |-> call.project.description,
                         status |-> NOT_STARTED, tasks |-> <<>>] >>

\* createProject succeeded on a store that held another project with a task
C22_Witness ==
    /\ call.op = "createProject"
    /\ out.ret = "true"
    /\ pre.projects # <<>>
    /\ pre.tasks # <<>>
    /\ Len(m_db.projects) = 2

\* this step was an entity call that raised, or a removeTask of a name the
\* project does not hold
NoMutation ==
    \/ call.op \in {"addTask", "updateTaskProgress"} /\ out.err # <<>>
    \/ /\ call.op = "removeTask"
       /\ \A i \in DOMAIN Before.tasks : Before.tasks[i].name # call.taskName

(* C23. Project::setProjectStatus(s) sets the status to s for each of the  *)
(* four values, whatever the tasks are, and changes neither name,          *)
(* description nor tasks; the status stays through removeTask of an absent *)
(* name and through addTask/updateTaskProgress calls that raise, and is    *)
(* replaced by the derived status at the next successful task mutation.    *)
C23_SetProjectStatusOverride ==
    /\ call.op = "setProjectStatus" =>
           /\ project.status = call.progress
           /\ project.name = Before.name
           /\ project.description = Before.description
           /\ project.tasks = Before.tasks
    /\ NoMutation => project = Before
    /\ (TaskListMutated /\ Before.status = PAUSED)
           => project.status = DerivedStatus(project.tasks)
                  /\ project.status # PAUSED

\* a project with a task was set to Paused, and a call that raised left it so
C23_Witness ==
    /\ NoMutation
    /\ out.err # <<>>
    /\ Before.tasks # <<>>
    /\ Before.status = PAUSED
    /\ project.status = PAUSED

C25_AddTaskAppends ==
    (call.op = "addTask" /\ out.err = <<>>)
    => /\ Len(project.tasks) = Len(Before.tasks) + 1
       /\ \A i \in DOMAIN Before.tasks : project.tasks[i] = Before.tasks[i]
       /\ project.tasks[Len(project.tasks)] = call.task
       /\ project.name = Before.name
       /\ project.description = Before.description

\* a second task, with progress above 100, was added after another one
C25_Witness ==
    /\ call.op = "addTask"
    /\ out.err = <<>>
    /\ Len(Before.tasks) = 1
    /\ call.task.progress > 100
    /\ project.tasks[2].progress = call.task.progress
    /\ project.tasks[1].progress # call.task.progress

\* the sum of the tasks' progress, counted from the first task on
TotalProgress(tasks) ==
    LET total[i \in 0..Len(tasks)] ==
            IF i = 0 THEN 0 ELSE total[i - 1] + tasks[i].progress
    IN  total[Len(tasks)]

(* C26. getOverallProgress() returns 0 when there are no tasks and         *)
(* otherwise the sum of the tasks' progress divided by the number of       *)
(* tasks; it is the average that status derivation uses, and calling it    *)
(* changes nothing in the project.                                         *)
C26_OverallProgressIsMean ==
    call.op = "getOverallProgress" =>
        /\ project = Before
        /\ out.err = <<>>
        /\ IF Before.tasks = <<>>
           THEN out.ret = [num |-> 0, den |-> 1]
           ELSE /\ out.ret.den = Len(Before.tasks)
                /\ out.ret.num = TotalProgress(Before.tasks)
                /\ out.ret = AvgProgress(Before.tasks)

\* the mean of two tasks with different progress was returned
C26_Witness ==
    /\ call.op = "getOverallProgress"
    /\ Len(Before.tasks) = 2
    /\ Before.tasks[1].progress # Before.tasks[2].progress
    /\ out.ret.num = Before.tasks[1].progress + Before.tasks[2].progress
    /\ out.ret.den = 2

(* C27. After any sequence of createProject, deleteProject,                *)
(* addTaskToProject and ProjectManager::updateTaskProgress calls,          *)
(* successful or failed, every project getAllProjects returns has the      *)
(* status derived from the tasks returned with it; a stored project with   *)
(* no tasks is NotStarted.                                                 *)
C27_LoadedStatusDerived ==
    \A i \in DOMAIN LoadAll(m_db) :
        LoadAll(m_db)[i].status = DerivedStatus(LoadAll(m_db)[i].tasks)

\* the task rows loadAllProjects returned, over all projects
RECURSIVE LoadedTaskCount(_)
LoadedTaskCount(projects) ==
    IF projects = <<>> THEN 0
    ELSE Len(Head(projects).tasks) + LoadedTaskCount(Tail(projects))

(* C28. In every reachable store, with or without engine failures in the   *)
(* middle of an operation, every task row's project_name equals, ignoring  *)
(* letter case, the name of exactly one stored project row, and            *)
(* loadAllProjects returns every stored task row under one project.        *)
C28_NoOrphanTaskRows ==
    /\ \A i \in DOMAIN m_db.tasks :
           \E j \in DOMAIN m_db.projects :
               /\ NoCaseEq(m_db.projects[j].name, m_db.tasks[i].project_name)
               /\ \A k \in DOMAIN m_db.projects :
                      NoCaseEq(m_db.projects[k].name, m_db.tasks[i].project_name)
                          => k = j
    /\ Database_loadAllProjects(m_db).err = <<>>
    /\ LoadedTaskCount(LoadAll(m_db)) = Len(m_db.tasks)

\* both DELETE statements of deleteProject had run on a project with task
\* rows when the COMMIT failed
C28_Witness ==
    /\ call.op = "deleteProject"
    /\ call.fault.at = "commit"
    /\ Injected(m_db)
    /\ \E i \in DOMAIN m_db.log : m_db.log[i] = <<"step DELETE tasks", SQLITE_DONE>>
    /\ \E i \in DOMAIN m_db.tasks : NoCaseEq(m_db.tasks[i].project_name, call.name)

\* the object of this step and the object it moved from
This == call.name[1]
Other == call.name[2]

(* C29. Across construction, move construction, move assignment (also to   *)
(* itself) and destruction, each open handle is held by at most one        *)
(* Database object; after a move the source holds no handle and the        *)
(* destination holds the source's former handle; a move assignment closes  *)
(* the handle the destination held before; no handle is closed twice.      *)
C29_HandleOwnership ==
    /\ \A o1, o2 \in Objects :
           ( /\ objects[o1].alive /\ objects[o2].alive
             /\ objects[o1].m_db # nullptr
             /\ objects[o1].m_db = objects[o2].m_db ) => o1 = o2
    /\ \A o \in Objects :
           (objects[o].alive /\ objects[o].m_db # nullptr)
               => handles[objects[o].m_db].state = "open"
    /\ \A h \in Handles : handles[h].closes <= 1
    /\ (call.op = "Database(Database&&)" \/ (call.op = "operator=" /\ This # Other))
           => /\ objects[Other].m_db = nullptr
              /\ objects[This].m_db = pre.objects[Other].m_db
    /\ (call.op = "operator=" /\ This # Other
            /\ pre.objects[This].m_db # nullptr)
           => /\ handles[pre.objects[This].m_db].state = "closed"
              /\ handles[pre.objects[This].m_db].closes = 1
    /\ (call.op = "operator=" /\ This = Other) => Lifetime = pre

\* a Database that held an open handle was move-assigned another open handle
C29_Witness ==
    /\ call.op = "operator="
    /\ This # Other
    /\ pre.objects[This].m_db # nullptr
    /\ pre.objects[Other].m_db # nullptr
    /\ objects[This].m_db = pre.objects[Other].m_db
    /\ handles[objects[This].m_db].state = "open"

(* C30. If the Database constructor raises (opening the file, setting the  *)
(* encoding or creating the schema fails), the handle obtained so far is   *)
(* closed before the error propagates, so that no handle is open once all  *)
(* Database objects are destroyed.                                         *)
C30_NoHandleLeakOnFailedConstruction ==
    /\ (call.op = "Database" /\ out.err # <<>>)
           => \A h \in Handles :
                  pre.handles[h].state = "unused" => handles[h].state # "open"
    /\ (\A o \in Objects : ~objects[o].alive)
           => \A h \in Handles : handles[h].state # "open"

====
